---- MODULE Spec2Model ----
\* A model of the ddcutil safe access layer: display enumeration, display
\* sessions, VCP value reads/writes and capability parsing over the foreign
\* (C) ddcutil library.  The foreign library is a black box that answers every
\* call with a status and out-parameters; its memory is modelled explicitly so
\* that copy/free ordering and exactly-once release are observable.
EXTENDS Integers, Sequences, FiniteSets, TLC

VARIABLES
    flist,      \* the foreign DDCA_Display_Info_List allocation
    list,       \* the DisplayInfoList the caller holds
    iter,       \* the DisplayInfoIter the caller holds (borrows the list)
    info,       \* the DisplayInfo the caller holds
    fsess,      \* foreign display handles (sessions), by handle
    displays,   \* Display objects held by the caller
    last        \* the last operation: its foreign answer, its result, its foreign calls

vars == <<flist, list, iter, info, fsess, displays, last>>

\* ------------------------------------------------------------------ bounds

MaxListLen == 2     \* displays in one enumeration
MaxSessions == 2    \* sessions open at once
MaxFeatures == 2    \* entries of a parsed vcp_codes array
MaxValues == 3      \* values of one feature entry
MaxTable == 2       \* bytes of a table value

Handles == 1..MaxSessions

\* ------------------------------------------------------------------ helpers

RECURSIVE SeqsUpTo(_, _)
SeqsUpTo(S, n) ==
    IF n = 0 THEN {<<>>}
    ELSE LET shorter == SeqsUpTo(S, n - 1)
         IN shorter \cup {Append(s, x) : s \in {t \in shorter : Len(t) = n - 1}, x \in S}

\* Statuses the foreign library answers with: 0 or a negative DDCRC_* / -errno code.
StatusSamples == {0, -5, -3020}

\* Result<T>
Ok(v) == [ok |-> TRUE, status |-> 0, val |-> v]

Err(status) == [ok |-> FALSE, status |-> status, val |-> [none |-> TRUE]]

\* Error::from_status(status): zero is success, anything else a typed error
\* carrying the status.
Error_from_status(status) ==
    IF status = 0 THEN Ok(status) ELSE Err(status)

\* ---------------------------------------------------------- foreign memory

\* One foreign allocation: live until freed; frees counts the release calls.
Alloc(data) == [live |-> TRUE, frees |-> 0, data |-> data]

Free(buf) == [buf EXCEPT !.live = FALSE, !.frees = @ + 1]

\* What a read through a pointer into buf can yield: its data while it is
\* live, anything of the same type once it is freed.
Load(buf, garbage) == IF buf.live THEN {buf.data} ELSE garbage

\* slice::from_raw_parts(ptr, len): the first len elements at ptr
from_raw_parts(mem, ct) == SubSeq(mem, 1, ct)

\* CStr::from_ptr(ptr).to_bytes(): the bytes before the first NUL
RECURSIVE CStr_to_bytes(_)
CStr_to_bytes(mem) ==
    IF mem = <<>> \/ Head(mem) = 0 THEN <<>>
    ELSE <<Head(mem)>> \o CStr_to_bytes(Tail(mem))

\* ------------------------------------------------------------------ Value

ByteSamples == {0, 1, 127, 128, 255}

Bytes == 0..255

\* foreign value records: the sample bytes in every combination, and every
\* byte pair as (sh, sl) and, swapped, as (mh, ml)
RawValues ==
    [mh : ByteSamples, ml : ByteSamples, sh : ByteSamples, sl : ByteSamples]
        \cup {[mh |-> b, ml |-> a, sh |-> a, sl |-> b] : a, b \in Bytes}

U16(n) == n % 65536

\* (x as u16) << k
Shl16(x, k) == U16(x * (2 ^ k))

RECURSIVE BitOr(_, _)
BitOr(a, b) ==
    IF a = 0 THEN b
    ELSE IF b = 0 THEN a
    ELSE (IF a % 2 = 1 \/ b % 2 = 1 THEN 1 ELSE 0) + 2 * BitOr(a \div 2, b \div 2)

Value_from_raw(raw) == [mh |-> raw.mh, ml |-> raw.ml, sh |-> raw.sh, sl |-> raw.sl]

\* the shift done in u8, before widening: the high byte is lost
Value_value_narrow(v) == BitOr(U16((v.sh * (2 ^ 8)) % 256), v.sl)

Value_value(v) == BitOr(Shl16(v.sh, 8), v.sl)

Value_maximum(v) == BitOr(Shl16(v.mh, 8), v.ml)

\* ------------------------------------------------------------ DisplayPath

\* io_mode tags of DDCA_IO_Path; the last two are tags the layer does not know.
IoModes == {"DDCA_IO_I2C", "DDCA_IO_USB", "DDCA_IO_ADL", "IO_MODE_3", "IO_MODE_255"}

\* The union DDCA_IO_Path.path is two ints of storage: i2c_busno and
\* hiddev_devno are its first int, adlno is both.
i2c_busno(u) == u[1]

hiddev_devno(u) == u[1]

adlno(u) == [iAdapterIndex |-> u[1], iDisplayIndex |-> u[2]]

I2c(bus) == [variant |-> "I2c", bus_number |-> bus]

Usb(bus, dev, hiddev) ==
    [variant |-> "Usb", bus_number |-> bus, device_number |-> dev,
     hiddev_device_number |-> hiddev]

Adl(adapter, display) ==
    [variant |-> "Adl", adapter_index |-> adapter, display_index |-> display]

PathOk(p) == [ok |-> TRUE, val |-> p]

PathErr == [ok |-> FALSE, val |-> [unit |-> TRUE]]

\* the wildcard arm defaulting to a path instead of failing
DisplayPath_from_raw_default(path, usb_bus, usb_device) ==
    CASE path.io_mode = "DDCA_IO_USB" ->
            PathOk(Usb(usb_bus, usb_device, hiddev_devno(path.path)))
      [] path.io_mode = "DDCA_IO_ADL" ->
            PathOk(Adl(adlno(path.path).iAdapterIndex, adlno(path.path).iDisplayIndex))
      [] OTHER -> PathOk(I2c(i2c_busno(path.path)))

DisplayPath_from_raw(path, usb_bus, usb_device) ==
    CASE path.io_mode = "DDCA_IO_I2C" -> PathOk(I2c(i2c_busno(path.path)))
      [] path.io_mode = "DDCA_IO_USB" ->
            PathOk(Usb(usb_bus, usb_device, hiddev_devno(path.path)))
      [] path.io_mode = "DDCA_IO_ADL" ->
            PathOk(Adl(adlno(path.path).iAdapterIndex, adlno(path.path).iDisplayIndex))
      [] OTHER -> PathErr

\* ------------------------------------------------------------ DisplayInfo

\* a pointer: null, or the memory it points at
as_ptr(arr) == [null |-> FALSE, mem |-> arr]

\* from_ptr of DisplayInfo::from_raw
from_ptr(ptr) == IF ptr.null THEN <<>> ELSE CStr_to_bytes(ptr.mem)

DisplayInfo_from_raw(raw) ==
    [handle |-> raw.dref,
     display_number |-> raw.dispno,
     manufacturer_id |-> from_ptr(as_ptr(raw.mfg_id)),
     model_name |-> from_ptr(as_ptr(raw.model_name)),
     serial_number |-> from_ptr(as_ptr(raw.sn)),
     edid |-> raw.edid_bytes,
     path |-> LET r == DisplayPath_from_raw(raw.path, raw.usb_bus, raw.usb_device)
              IN IF r.ok THEN r.val ELSE Usb(raw.usb_bus, raw.usb_device, -1)]

\* Foreign DDCA_Display_Info records the enumeration can return: one per
\* transport, and one whose io_mode tag is not recognised.
RawInfo(dref, dispno, mfg, model, sn, edid, mode, u, bus, dev) ==
    [dref |-> dref, dispno |-> dispno, mfg_id |-> mfg, model_name |-> model,
     sn |-> sn, edid_bytes |-> edid, path |-> [io_mode |-> mode, path |-> u],
     usb_bus |-> bus, usb_device |-> dev]

RawInfoSamples ==
    { RawInfo(1, 1, <<65, 67, 73, 0>>, <<80, 66, 0, 0>>, <<49, 0, 0>>, <<0, 255, 255, 0>>,
              "DDCA_IO_I2C", <<4, 0>>, 0, 0),
      RawInfo(2, 2, <<68, 69, 76, 0>>, <<0, 0, 0, 0>>, <<50, 51, 0>>, <<0, 255, 16, 172>>,
              "DDCA_IO_USB", <<3, 0>>, 1, 5),
      RawInfo(3, 3, <<71, 83, 77, 0>>, <<76, 0, 71, 0>>, <<0, 0, 0>>, <<0, 255, 30, 109>>,
              "DDCA_IO_ADL", <<1, 2>>, 0, 0),
      RawInfo(4, -1, <<0, 0, 0, 0>>, <<88, 0, 0, 0>>, <<52, 0, 0>>, <<0, 0, 0, 0>>,
              "IO_MODE_3", <<7, 8>>, 2, 9) }

\* what freed list memory may hold afterwards
PoisonInfo ==
    RawInfo(0, 0, <<90, 90, 90, 0>>, <<90, 0, 0, 0>>, <<90, 90, 0>>, <<90, 90, 90, 90>>,
            "IO_MODE_255", <<90, 90>>, 90, 90)

\* DDCA_Display_Info_List: ct and the info array
RawList(records) == [ct |-> Len(records), info |-> records]

RawLists == {RawList(s) : s \in SeqsUpTo(RawInfoSamples, MaxListLen)}

Poisoned(rawlist) == [ct |-> rawlist.ct, info |-> [i \in 1..Len(rawlist.info) |-> PoisonInfo]]

\* DisplayInfoList::from_raw(handle): the handle and a slice of (*handle).ct records
DisplayInfoList_from_raw(handle, mem) ==
    [st |-> "live", handle |-> handle, len |-> Len(from_raw_parts(mem.info, mem.ct))]

\* get returning a view into the list's record instead of a copy of it
DisplayInfoList_get_borrowed(lst, index, mem) ==
    [kind |-> "borrowed", src |-> <<lst.handle, index>>,
     data |-> DisplayInfo_from_raw(from_raw_parts(mem.info, lst.len)[index + 1])]

\* DisplayInfoList::get(index): a DisplayInfo copied out of record list[index]
DisplayInfoList_get(lst, index, mem) ==
    [kind |-> "owned", src |-> <<lst.handle, index>>,
     data |-> DisplayInfo_from_raw(from_raw_parts(mem.info, lst.len)[index + 1])]

NoInfo == [kind |-> "none"]

\* ----------------------------------------------------------- Capabilities

FeatureCodes == {16, 96}

ValueBytes == {0, 1, 2}

\* the value lists a feature entry declares: no value twice
ValueLists ==
    {s \in SeqsUpTo(ValueBytes, MaxValues) : \A i, j \in 1..Len(s) : s[i] = s[j] => i = j}

\* DDCA_Cap_Vcp
CapVcp(code, values) == [feature_code |-> code, value_ct |-> Len(values), values |-> values]

CapVcps == {CapVcp(c, v) : c \in FeatureCodes, v \in ValueLists}

\* DDCA_Capabilities
RawCaps(version, codes) ==
    [version_spec |-> version, vcp_code_ct |-> Len(codes), vcp_codes |-> codes]

VersionSamples == {[major |-> 2, minor |-> 1]}

ParseTrees == {RawCaps(v, c) : v \in VersionSamples, c \in SeqsUpTo(CapVcps, MaxFeatures)}

\* the parse trees a session of the lifecycle model is answered with
ParseTreeSamples ==
    { RawCaps([major |-> 2, minor |-> 1], <<CapVcp(16, <<0, 1>>)>>),
      RawCaps([major |-> 2, minor |-> 1], <<CapVcp(16, <<>>), CapVcp(16, <<1>>)>>) }

MccsVersion_from_raw(raw) == [major |-> raw.major, minor |-> raw.minor]

\* HashMap::insert
Insert(m, k, v) == [x \in (DOMAIN m) \cup {k} |-> IF x = k THEN v ELSE m[x]]

\* Iterator::collect into a HashMap: the pairs inserted in order
RECURSIVE Collect(_, _)
Collect(m, pairs) ==
    IF pairs = <<>> THEN m
    ELSE Collect(Insert(m, Head(pairs)[1], Head(pairs)[2]), Tail(pairs))

EmptyMap == [x \in {} |-> <<>>]

\* a value list cut one short of value_ct
Capabilities_from_raw_short(raw) ==
    [version |-> MccsVersion_from_raw(raw.version_spec),
     features |->
        LET entries == from_raw_parts(raw.vcp_codes, raw.vcp_code_ct)
        IN Collect(EmptyMap,
               [i \in 1..Len(entries) |->
                   <<entries[i].feature_code,
                     from_raw_parts(entries[i].values,
                        IF entries[i].value_ct > 0 THEN entries[i].value_ct - 1 ELSE 0)>>])]

Capabilities_from_raw(raw) ==
    [version |-> MccsVersion_from_raw(raw.version_spec),
     features |->
        LET entries == from_raw_parts(raw.vcp_codes, raw.vcp_code_ct)
        IN Collect(EmptyMap,
               [i \in 1..Len(entries) |->
                   <<entries[i].feature_code,
                     from_raw_parts(entries[i].values, entries[i].value_ct)>>])]

\* an out-parameter the foreign call did not write
Uninit == [live |-> FALSE, frees |-> 0, data |-> [uninit |-> TRUE]]

\* a foreign call and the status it returned (0 for a call that returns none)
Call(fn, status) == [fn |-> fn, status |-> status]

\* the tree freed before it is walked
Capabilities_from_cstr_free_first(status, buf) ==
    IF ~Error_from_status(status).ok
    THEN {[res |-> Err(status),
           calls |-> <<Call("ddca_parse_capabilities_string", status)>>, pbuf |-> buf]}
    ELSE {[res |-> Ok(Capabilities_from_raw(raw)),
           calls |-> <<Call("ddca_parse_capabilities_string", status),
                       Call("ddca_free_parsed_capabilities", 0),
                       Call("Capabilities::from_raw", 0)>>,
           pbuf |-> Free(buf)] : raw \in Load(Free(buf), ParseTrees)}

\* Capabilities::from_cstr, answered by the foreign parser with status and
\* (on success) the tree in buf
Capabilities_from_cstr(status, buf) ==
    IF ~Error_from_status(status).ok
    THEN {[res |-> Err(status),
           calls |-> <<Call("ddca_parse_capabilities_string", status)>>, pbuf |-> buf]}
    ELSE {[res |-> Ok(Capabilities_from_raw(raw)),
           calls |-> <<Call("ddca_parse_capabilities_string", status),
                       Call("Capabilities::from_raw", 0),
                       Call("ddca_free_parsed_capabilities", 0)>>,
           pbuf |-> Free(buf)] : raw \in Load(buf, ParseTrees)}

\* ---------------------------------------------------------------- Display

\* capability strings in foreign memory: NUL-terminated
CapStrSamples == {<<0>>, <<40, 41, 0, 41>>}

Display_from_raw(handle) == [st |-> "open", handle |-> handle]

NoDisplay == [st |-> "none", handle |-> 0]

\* DisplayInfo::open(wait), answered with status and (on success) handle
DisplayInfo_open(status, handle) ==
    [res |-> IF Error_from_status(status).ok THEN Ok(Display_from_raw(handle))
             ELSE Err(status),
     calls |-> <<Call("ddca_open_display2", status)>>]

\* a failed enumeration reported as an empty list
DisplayInfo_enumerate_empty(status, handle, mem) ==
    [res |-> IF Error_from_status(status).ok THEN Ok(DisplayInfoList_from_raw(handle, mem))
             ELSE Ok([st |-> "live", handle |-> 0, len |-> 0]),
     calls |-> <<Call("ddca_get_display_info_list2", status)>>]

\* DisplayInfo::enumerate, answered with status and (on success) the list at handle
DisplayInfo_enumerate(status, handle, mem) ==
    [res |-> IF Error_from_status(status).ok THEN Ok(DisplayInfoList_from_raw(handle, mem))
             ELSE Err(status),
     calls |-> <<Call("ddca_get_display_info_list2", status)>>]

\* the buffer released before it is copied
Display_capabilities_string_free_first(status, buf) ==
    IF ~Error_from_status(status).ok
    THEN {[res |-> Err(status),
           calls |-> <<Call("ddca_get_capabilities_string", status)>>, buf |-> buf]}
    ELSE {[res |-> Ok(CStr_to_bytes(mem)),
           calls |-> <<Call("ddca_get_capabilities_string", status),
                       Call("free", 0), Call("CStr::to_owned", 0)>>,
           buf |-> Free(buf)] : mem \in Load(Free(buf), CapStrSamples \cup {<<90, 0>>})}

\* Display::capabilities_string
Display_capabilities_string(status, buf) ==
    IF ~Error_from_status(status).ok
    THEN {[res |-> Err(status),
           calls |-> <<Call("ddca_get_capabilities_string", status)>>, buf |-> buf]}
    ELSE {[res |-> Ok(CStr_to_bytes(mem)),
           calls |-> <<Call("ddca_get_capabilities_string", status),
                       Call("CStr::to_owned", 0), Call("free", 0)>>,
           buf |-> Free(buf)] : mem \in Load(buf, CapStrSamples \cup {<<90, 0>>})}

\* Display::capabilities: capabilities_string().and_then(from_cstr)
Display_capabilities(status, buf, pstatus, pbuf) ==
    UNION { IF ~s.res.ok
            THEN {[res |-> s.res, calls |-> s.calls, buf |-> s.buf, pbuf |-> Uninit,
                   str |-> s.res]}
            ELSE {[res |-> c.res, calls |-> s.calls \o c.calls, buf |-> s.buf,
                   pbuf |-> c.pbuf, str |-> s.res]
                     : c \in Capabilities_from_cstr(pstatus, pbuf)}
          : s \in Display_capabilities_string(status, buf) }

Unit == [unit |-> TRUE]

\* the status dropped
Display_vcp_set_value_ignored(status) ==
    [res |-> Ok(Unit), calls |-> <<Call("ddca_set_non_table_vcp_value", status)>>]

\* Display::vcp_set_value
Display_vcp_set_value(status) ==
    [res |-> IF Error_from_status(status).ok THEN Ok(Unit) ELSE Err(status),
     calls |-> <<Call("ddca_set_non_table_vcp_value", status)>>]

\* Display::vcp_get_value, answered with status and (on success) raw
Display_vcp_get_value(status, raw) ==
    [res |-> IF Error_from_status(status).ok THEN Ok(Value_from_raw(raw)) ELSE Err(status),
     calls |-> <<Call("ddca_get_non_table_vcp_value", status)>>]

\* DDCA_Table_Vcp_Value: bytect and the bytes
RawTable(bytes) == [bytect |-> Len(bytes), bytes |-> bytes]

TableSamples == {RawTable(b) : b \in SeqsUpTo({7, 9}, MaxTable)}

\* the buffer freed before it is copied
Display_vcp_get_table_free_first(status, buf) ==
    IF ~Error_from_status(status).ok
    THEN {[res |-> Err(status),
           calls |-> <<Call("ddca_get_table_vcp_value", status)>>, buf |-> buf]}
    ELSE {[res |-> Ok(from_raw_parts(raw.bytes, raw.bytect)),
           calls |-> <<Call("ddca_get_table_vcp_value", status),
                       Call("ddca_free_table_vcp_value", 0), Call("to_owned", 0)>>,
           buf |-> Free(buf)] : raw \in Load(Free(buf), TableSamples)}

\* Display::vcp_get_table
Display_vcp_get_table(status, buf) ==
    IF ~Error_from_status(status).ok
    THEN {[res |-> Err(status),
           calls |-> <<Call("ddca_get_table_vcp_value", status)>>, buf |-> buf]}
    ELSE {[res |-> Ok(from_raw_parts(raw.bytes, raw.bytect)),
           calls |-> <<Call("ddca_get_table_vcp_value", status),
                       Call("to_owned", 0), Call("ddca_free_table_vcp_value", 0)>>,
           buf |-> Free(buf)] : raw \in Load(buf, TableSamples)}

\* a drop that releases nothing
Display_drop_leak(disp, status) == [res |-> Ok(Unit), calls |-> <<>>]

\* impl Drop for Display: close, its status dropped
Display_drop(disp, status) ==
    [res |-> Ok(Unit), calls |-> <<Call("ddca_close_display", status)>>]

\* impl Drop for DisplayInfoList
DisplayInfoList_drop(lst) ==
    [res |-> Ok(Unit), calls |-> <<Call("ddca_free_display_info_list", 0)>>]

\* IntoIterator for &DisplayInfoList
DisplayInfoList_into_iter(l) == [st |-> "active", list |-> l, index |-> 0]

NoIter == [st |-> "none", list |-> 0, index |-> 0]

\* -------------------------------------------------------------- the state

\* What the foreign library answers a call that allocates: status 0 and the
\* payload in a fresh allocation, or a failure and the out-parameter unwritten.
ForeignAnswers(payloads) ==
    {[status |-> 0, buf |-> Alloc(p)] : p \in payloads}
        \cup {[status |-> st, buf |-> Uninit] : st \in StatusSamples \ {0}}

CountCalls(calls, fn) == Cardinality({i \in 1..Len(calls) : calls[i].fn = fn})

NoList == [st |-> "none", handle |-> 0, len |-> 0]

\* the address of the foreign list allocation
ListHandle == 1

InitBase ==
    /\ flist = [alloc |-> FALSE, live |-> FALSE, frees |-> 0, data |-> RawList(<<>>)]
    /\ list = NoList
    /\ iter = NoIter
    /\ info = NoInfo
    /\ fsess = [h \in Handles |-> [st |-> "unused", closes |-> 0]]
    /\ displays = [d \in Handles |-> NoDisplay]

Init == InitBase /\ last = [op |-> "init"]

\* ------------------------------------------------------------ enumeration

\* DisplayInfo::enumerate(include_invalid_display), the foreign library
\* answering with one of rawlists or a failure; the caller holds one list at
\* a time
Enumerate(include_invalid, rawlists) ==
    /\ list.st # "live"
    /\ \E a \in ForeignAnswers(rawlists) :
         LET out == DisplayInfo_enumerate(a.status, ListHandle, a.buf.data)
         IN /\ flist' = IF a.status = 0
                        THEN [alloc |-> TRUE, live |-> TRUE, frees |-> 0, data |-> a.buf.data]
                        ELSE flist
            /\ list' = IF out.res.ok THEN out.res.val ELSE list
            /\ last' = [op |-> "enumerate", arg |-> include_invalid, fx |-> a, out |-> out]
    /\ UNCHANGED <<iter, info, fsess, displays>>

\* the list memory a DisplayInfoList's slice points into
ListMem(lst) ==
    IF lst.handle = ListHandle THEN flist
    ELSE [alloc |-> FALSE, live |-> FALSE, frees |-> 0, data |-> RawList(<<>>)]

\* DisplayInfoList::get(index), index in range; the caller keeps the copy
ListGet(index) ==
    /\ list.st = "live"
    /\ index < list.len
    /\ \E mem \in Load(ListMem(list), {ListMem(list).data}) :
         LET item == DisplayInfoList_get(list, index, mem)
         IN /\ info' = item
            /\ last' = [op |-> "get", index |-> index, read_live |-> ListMem(list).live,
                        raw |-> mem.info[index + 1], out |-> item]
    /\ UNCHANGED <<flist, list, iter, fsess, displays>>

\* (&list).into_iter(): the iterator borrows the list
IterNew ==
    /\ list.st = "live"
    /\ iter.st = "none"
    /\ iter' = DisplayInfoList_into_iter(list.handle)
    /\ last' = [op |-> "into_iter"]
    /\ UNCHANGED <<flist, list, info, fsess, displays>>

\* DisplayInfoIter::next(): the next copy, which the caller keeps, or None
IterNext ==
    /\ iter.st = "active"
    /\ IF iter.index < list.len
       THEN \E mem \in Load(ListMem(list), {ListMem(list).data}) :
              LET index == iter.index
                  item == DisplayInfoList_get(list, index, mem)
              IN /\ iter' = [iter EXCEPT !.index = index + 1]
                 /\ info' = item
                 /\ last' = [op |-> "next", index |-> index, some |-> TRUE,
                             read_live |-> ListMem(list).live,
                             raw |-> mem.info[index + 1], out |-> item]
       ELSE /\ last' = [op |-> "next", index |-> iter.index, some |-> FALSE,
                        read_live |-> ListMem(list).live]
            /\ UNCHANGED <<iter, info>>
    /\ UNCHANGED <<flist, list, fsess, displays>>

\* the iterator goes out of scope: the borrow ends
IterDrop ==
    /\ iter.st = "active"
    /\ iter' = NoIter
    /\ last' = [op |-> "drop_iter"]
    /\ UNCHANGED <<flist, list, info, fsess, displays>>

\* the DisplayInfoList goes out of scope (no borrow of it is left); the freed
\* memory keeps its content or is overwritten
DropList ==
    /\ list.st = "live"
    /\ iter.st # "active"
    /\ LET out == DisplayInfoList_drop(list)
           n == CountCalls(out.calls, "ddca_free_display_info_list")
       IN /\ \E after \in {flist.data, Poisoned(flist.data)} :
               flist' = IF n = 0 THEN flist
                        ELSE [alloc |-> TRUE, live |-> FALSE, frees |-> flist.frees + n,
                              data |-> after]
          /\ last' = [op |-> "drop_list", out |-> out]
    /\ list' = [list EXCEPT !.st = "dropped"]
    /\ UNCHANGED <<iter, info, fsess, displays>>

\* what a DisplayInfo's accessors return: its own copies, or what its view
\* points at now
Observe(i) ==
    IF i.kind = "owned" THEN i.data
    ELSE IF i.src[2] < Len(flist.data.info)
         THEN DisplayInfo_from_raw(flist.data.info[i.src[2] + 1])
         ELSE DisplayInfo_from_raw(PoisonInfo)

\* ---------------------------------------------------------------- sessions

\* foreign ddca_close_display, n times, on handle h
Closed(fs, h, n) ==
    IF n = 0 \/ h \notin Handles THEN fs
    ELSE [fs EXCEPT ![h] = [st |-> "closed", closes |-> @.closes + n]]

\* DisplayInfo::open(wait) on the DisplayInfo the caller holds; the foreign
\* library answers a successful open with a handle that is not open, which
\* the Display in slot d then holds
Open(wait) ==
    /\ info.kind # "none"
    /\ \E status \in StatusSamples, d \in {e \in Handles : displays[e].st # "open"} :
         LET out == DisplayInfo_open(status, IF status = 0 THEN d ELSE 0)
         IN /\ fsess' = IF status = 0
                        THEN [fsess EXCEPT ![d] = [st |-> "open", closes |-> 0]]
                        ELSE fsess
            /\ displays' = IF out.res.ok
                           THEN [displays EXCEPT ![d] = out.res.val]
                           ELSE displays
            /\ last' = [op |-> "open", dref |-> Observe(info).handle, d |-> d,
                        wait |-> wait, fx |-> [status |-> status], out |-> out]
    /\ UNCHANGED <<flist, list, iter, info>>

\* Display::capabilities_string()
CapabilitiesString(d) ==
    /\ displays[d].st = "open"
    /\ \E a \in ForeignAnswers(CapStrSamples) :
         \E out \in Display_capabilities_string(a.status, a.buf) :
            last' = [op |-> "capabilities_string", d |-> d, fx |-> a, out |-> out]
    /\ UNCHANGED <<flist, list, iter, info, fsess, displays>>

\* Display::capabilities()
GetCapabilities(d) ==
    /\ displays[d].st = "open"
    /\ \E a \in ForeignAnswers(CapStrSamples), pa \in ForeignAnswers(ParseTreeSamples) :
         \E out \in Display_capabilities(a.status, a.buf, pa.status, pa.buf) :
            last' = [op |-> "capabilities", d |-> d, fx |-> a,
                     pfx |-> IF a.status = 0 THEN pa ELSE [status |-> 0, buf |-> Uninit],
                     out |-> out]
    /\ UNCHANGED <<flist, list, iter, info, fsess, displays>>

CodeSamples == {16}

ValueSamples == {50}

\* Display::vcp_set_value(code, value)
VcpSetValue(d, code, value) ==
    /\ displays[d].st = "open"
    /\ \E status \in StatusSamples :
         last' = [op |-> "vcp_set_value", d |-> d, code |-> code, value |-> value,
                  fx |-> [status |-> status], out |-> Display_vcp_set_value(status)]
    /\ UNCHANGED <<flist, list, iter, info, fsess, displays>>

RawValueSamples == {[mh |-> 0, ml |-> 100, sh |-> 0, sl |-> 50],
                    [mh |-> 255, ml |-> 255, sh |-> 1, sl |-> 0]}

UninitValue == [mh |-> 90, ml |-> 90, sh |-> 90, sl |-> 90]

\* Display::vcp_get_value(code)
VcpGetValue(d, code) ==
    /\ displays[d].st = "open"
    /\ \E a \in {[status |-> 0, raw |-> r] : r \in RawValueSamples}
                  \cup {[status |-> st, raw |-> UninitValue] : st \in StatusSamples \ {0}} :
         last' = [op |-> "vcp_get_value", d |-> d, code |-> code, fx |-> a,
                  out |-> Display_vcp_get_value(a.status, a.raw)]
    /\ UNCHANGED <<flist, list, iter, info, fsess, displays>>

\* Display::vcp_get_table(code)
VcpGetTable(d, code) ==
    /\ displays[d].st = "open"
    /\ \E a \in ForeignAnswers(TableSamples) :
         \E out \in Display_vcp_get_table(a.status, a.buf) :
            last' = [op |-> "vcp_get_table", d |-> d, code |-> code, fx |-> a, out |-> out]
    /\ UNCHANGED <<flist, list, iter, info, fsess, displays>>

\* the Display goes out of scope
DropDisplay(d) ==
    /\ displays[d].st = "open"
    /\ \E status \in StatusSamples :
         LET out == Display_drop(displays[d], status)
         IN /\ fsess' = Closed(fsess, displays[d].handle,
                               CountCalls(out.calls, "ddca_close_display"))
            /\ last' = [op |-> "drop_display", d |-> d, fx |-> [status |-> status],
                        out |-> out]
    /\ displays' = [displays EXCEPT ![d].st = "dropped"]
    /\ UNCHANGED <<flist, list, iter, info>>

\* the enumerations the session model is answered with: no display, or one
RawListSamples ==
    {RawList(<<>>)} \cup {RawList(<<r>>) : r \in {x \in RawInfoSamples : x.dref = 1}}

Next ==
    \/ \E b \in BOOLEAN : Enumerate(b, RawListSamples)
    \/ \E i \in 0..MaxListLen : ListGet(i)
    \/ IterNew
    \/ IterNext
    \/ IterDrop
    \/ DropList
    \/ \E w \in BOOLEAN : Open(w)
    \/ \E d \in Handles : CapabilitiesString(d)
    \/ \E d \in Handles : GetCapabilities(d)
    \/ \E d \in Handles, c \in CodeSamples, v \in ValueSamples : VcpSetValue(d, c, v)
    \/ \E d \in Handles, c \in CodeSamples : VcpGetValue(d, c)
    \/ \E d \in Handles, c \in CodeSamples : VcpGetTable(d, c)
    \/ \E d \in Handles : DropDisplay(d)

Spec == Init /\ [][Next]_vars

\* enumeration alone, over every list of up to MaxListLen records
NextList ==
    \/ \E b \in BOOLEAN : Enumerate(b, RawLists)
    \/ \E i \in 0..MaxListLen : ListGet(i)
    \/ IterNew
    \/ IterNext
    \/ IterDrop
    \/ DropList

SpecList == Init /\ [][NextList]_vars

\* ------------------------------------------------- the pure conversions

InitValue == InitBase /\ last \in {[op |-> "raw_value", fx |-> raw] : raw \in RawValues}

\* Value::from_raw on a foreign record, then value() and maximum()
ValueAccess ==
    /\ last.op = "raw_value"
    /\ LET v == Value_from_raw(last.fx)
       IN last' = [op |-> "value", fx |-> last.fx,
                   out |-> [v |-> v, value |-> Value_value(v), maximum |-> Value_maximum(v)]]
    /\ UNCHANGED <<flist, list, iter, info, fsess, displays>>

SpecValue == InitValue /\ [][ValueAccess]_vars

InitCaps == InitBase /\ last \in {[op |-> "cstr", fx |-> a] : a \in ForeignAnswers(ParseTrees)}

\* Capabilities::from_cstr on a capability string the caller holds
CapsFromCstr ==
    /\ last.op = "cstr"
    /\ \E out \in Capabilities_from_cstr(last.fx.status, last.fx.buf) :
          last' = [op |-> "from_cstr", fx |-> last.fx, out |-> out]
    /\ UNCHANGED <<flist, list, iter, info, fsess, displays>>

SpecCaps == InitCaps /\ [][CapsFromCstr]_vars

UnionSamples == {<<4, 0>>, <<1, 2>>, <<-1, 7>>}

BusSamples == {0, 1}

DeviceSamples == {0, 5}

InitPath ==
    InitBase /\ last \in {[op |-> "raw_path",
                           fx |-> [path |-> [io_mode |-> mode, path |-> u],
                                   usb_bus |-> bus, usb_device |-> dev]] :
                             mode \in IoModes, u \in UnionSamples,
                             bus \in BusSamples, dev \in DeviceSamples}

\* DisplayPath::from_raw called directly
PathFromRaw ==
    /\ last.op = "raw_path"
    /\ last' = [op |-> "path_from_raw", fx |-> last.fx,
                out |-> DisplayPath_from_raw(last.fx.path, last.fx.usb_bus,
                                             last.fx.usb_device)]
    /\ UNCHANGED <<flist, list, iter, info, fsess, displays>>

\* DisplayInfo::from_raw on an enumeration record with that path
InfoFromRaw ==
    /\ last.op = "raw_path"
    /\ LET raw == RawInfo(1, 1, <<65, 67, 73, 0>>, <<80, 66, 0, 0>>, <<49, 0, 0>>,
                          <<0, 255, 255, 0>>, last.fx.path.io_mode, last.fx.path.path,
                          last.fx.usb_bus, last.fx.usb_device)
       IN last' = [op |-> "info_from_raw", fx |-> raw, out |-> DisplayInfo_from_raw(raw)]
    /\ UNCHANGED <<flist, list, iter, info, fsess, displays>>

NextPath == PathFromRaw \/ InfoFromRaw

SpecPath == InitPath /\ [][NextPath]_vars

\* ------------------------------------------------------------- properties

\* call fn occurs in calls, and every occurrence of copy precedes every one of free
Before(calls, copy, free) ==
    \A i, j \in 1..Len(calls) : calls[i].fn = copy /\ calls[j].fn = free => i < j

\* C1: a failed open creates no Display and invokes no close; the handle of
\* a successful open is not closed while its Display is alive, and has been
\* closed exactly once when that Display is gone.
C1_SessionLifecycle ==
    /\ last.op = "open" =>
          /\ CountCalls(last.out.calls, "ddca_close_display") = 0
          /\ last.fx.status # 0 => ~last.out.res.ok /\ last.out.res.status = last.fx.status
          /\ last.fx.status = 0 => last.out.res.ok /\ displays[last.d].st = "open"
    /\ \A d \in Handles :
          /\ displays[d].st = "none" => fsess[d].st = "unused" /\ fsess[d].closes = 0
          /\ displays[d].st # "none" => displays[d].handle = d
          /\ displays[d].st = "open" => fsess[d].st = "open" /\ fsess[d].closes = 0
          /\ displays[d].st = "dropped" => fsess[d].st = "closed" /\ fsess[d].closes = 1

\* a Display was dropped, its handle closed once, while another is still open
C1_Witness ==
    /\ last.op = "drop_display"
    /\ fsess[displays[last.d].handle].closes = 1
    /\ \E d \in Handles : displays[d].st = "open"

\* C2: a successful table read returns bytect bytes, the foreign bytes, copied
\* before the single free of the buffer; a failed one returns the error,
\* and frees nothing.
C2_TableRead ==
    last.op = "vcp_get_table" =>
        IF last.fx.status = 0
        THEN /\ last.out.res.ok
             /\ Len(last.out.res.val) = last.fx.buf.data.bytect
             /\ last.out.res.val = last.fx.buf.data.bytes
             /\ CountCalls(last.out.calls, "to_owned") = 1
             /\ CountCalls(last.out.calls, "ddca_free_table_vcp_value") = 1
             /\ Before(last.out.calls, "to_owned", "ddca_free_table_vcp_value")
             /\ last.out.buf.frees = 1
        ELSE /\ ~last.out.res.ok
             /\ last.out.res.status = last.fx.status
             /\ CountCalls(last.out.calls, "ddca_free_table_vcp_value") = 0
             /\ last.out.buf.frees = 0

C2_Witness ==
    /\ last.op = "vcp_get_table"
    /\ last.fx.status = 0
    /\ Len(last.out.res.val) >= 2
    /\ last.out.buf.frees = 1

\* C3: the list memory of a successful enumeration is live and unfreed while
\* its DisplayInfoList is, and has been freed exactly once when the list is
\* dropped; every get / next reads live memory; and what a DisplayInfo shows
\* stays what it was copied as, also after the free.
C3_ListRelease ==
    /\ flist.alloc => list.st # "none" /\ list.handle = ListHandle
    /\ list.st = "live" => flist.live /\ flist.frees = 0
    /\ list.st = "dropped" => ~flist.live /\ flist.frees = 1
    /\ last.op = "get" => last.read_live
    /\ last.op = "next" /\ last.some => last.read_live
    /\ last.op = "drop_list" =>
          CountCalls(last.out.calls, "ddca_free_display_info_list") = 1
    /\ info.kind # "none" => Observe(info) = info.data

\* a DisplayInfo is held whose list has been freed and its memory overwritten
C3_Witness ==
    /\ info.kind # "none"
    /\ last.op = "drop_list"
    /\ flist.frees = 1
    /\ info.src[2] < Len(flist.data.info)
    /\ flist.data.info[info.src[2] + 1] = PoisonInfo
    /\ info.data.manufacturer_id = <<68, 69, 76>>

\* C4: enumerate answered with status 0 is Ok with a list of ct entries (none
\* when ct = 0, and then next() yields None); answered with a failure it is
\* that error, and no DisplayInfoList exists that is not backed by a
\* successful enumeration.
C4_Enumerate ==
    /\ last.op = "enumerate" =>
          /\ last.fx.status = 0 =>
                /\ last.out.res.ok
                /\ last.out.res.val.len = last.fx.buf.data.ct
                /\ list = last.out.res.val
          /\ last.fx.status # 0 =>
                /\ ~last.out.res.ok
                /\ last.out.res.status = last.fx.status
    /\ list.st # "none" => list.handle = ListHandle /\ flist.alloc
    /\ last.op = "next" /\ list.len = 0 => ~last.some

\* an enumeration of zero displays succeeded and its iteration yielded nothing
C4_Witness ==
    /\ last.op = "next"
    /\ ~last.some
    /\ list.len = 0
    /\ flist.live /\ flist.data.ct = 0

\* C5: from_cstr on a successful parse walks the tree once, before the single
\* free of the tree, and returns its version and feature codes; on a failed
\* parse it returns the parser's status, and neither walks nor frees.
C5_FromCstr ==
    last.op = "from_cstr" =>
        IF last.fx.status = 0
        THEN /\ last.out.res.ok
             /\ last.out.res.val.version = last.fx.buf.data.version_spec
             /\ DOMAIN last.out.res.val.features =
                    {last.fx.buf.data.vcp_codes[i].feature_code :
                        i \in 1..last.fx.buf.data.vcp_code_ct}
             /\ CountCalls(last.out.calls, "Capabilities::from_raw") = 1
             /\ CountCalls(last.out.calls, "ddca_free_parsed_capabilities") = 1
             /\ Before(last.out.calls, "Capabilities::from_raw",
                       "ddca_free_parsed_capabilities")
             /\ last.out.pbuf.frees = 1
        ELSE /\ ~last.out.res.ok
             /\ last.out.res.status = last.fx.status
             /\ CountCalls(last.out.calls, "Capabilities::from_raw") = 0
             /\ CountCalls(last.out.calls, "ddca_free_parsed_capabilities") = 0
             /\ last.out.pbuf.frees = 0

C5_Witness ==
    /\ last.op = "from_cstr"
    /\ last.fx.status = 0
    /\ last.fx.buf.data.vcp_code_ct >= 1
    /\ last.out.pbuf.frees = 1

\* the entries of the parsed tree of the last from_cstr
Entries == from_raw_parts(last.fx.buf.data.vcp_codes, last.fx.buf.data.vcp_code_ct)

\* C6 as stated: every entry's code is a key, and the list under it is that
\* entry's value list.
C6_EveryEntryPreserved ==
    last.op = "from_cstr" /\ last.out.res.ok =>
        \A i \in 1..Len(Entries) :
            /\ Entries[i].feature_code \in DOMAIN last.out.res.val.features
            /\ last.out.res.val.features[Entries[i].feature_code] = Entries[i].values
            /\ Len(last.out.res.val.features[Entries[i].feature_code]) = Entries[i].value_ct

\* C6 amended: the keys are the entries' codes, and the list under a code is
\* the value list, of the declared length, of the LAST entry with that code
\* (so of the entry itself when no later entry repeats its code).
C6_LastEntryWins ==
    last.op = "from_cstr" /\ last.out.res.ok =>
        /\ DOMAIN last.out.res.val.features =
               {Entries[i].feature_code : i \in 1..Len(Entries)}
        /\ \A i \in 1..Len(Entries) :
              (\A j \in (i + 1)..Len(Entries) :
                    Entries[j].feature_code # Entries[i].feature_code) =>
                  /\ last.out.res.val.features[Entries[i].feature_code] = Entries[i].values
                  /\ Len(last.out.res.val.features[Entries[i].feature_code])
                        = Entries[i].value_ct

\* two entries with one code and different value lists were parsed
C6_Witness ==
    /\ last.op = "from_cstr"
    /\ last.out.res.ok
    /\ \E i, j \in 1..Len(Entries) :
          /\ i < j
          /\ Entries[i].feature_code = Entries[j].feature_code
          /\ Entries[i].values # Entries[j].values
          /\ last.out.res.val.features[Entries[j].feature_code] = Entries[j].values

\* the path the three known tags stand for
KnownPath(path, usb_bus, usb_device) ==
    CASE path.io_mode = "DDCA_IO_I2C" -> I2c(path.path[1])
      [] path.io_mode = "DDCA_IO_USB" -> Usb(usb_bus, usb_device, path.path[1])
      [] path.io_mode = "DDCA_IO_ADL" -> Adl(path.path[1], path.path[2])

KnownModes == {"DDCA_IO_I2C", "DDCA_IO_USB", "DDCA_IO_ADL"}

\* C7: DisplayPath::from_raw yields the matching variant for the three known
\* tags and a failure for every other tag; DisplayInfo::from_raw yields the
\* same path for a known tag and Usb{usb_bus, usb_device, -1} for any other.
C7_PathTags ==
    /\ last.op = "path_from_raw" =>
          IF last.fx.path.io_mode \in KnownModes
          THEN /\ last.out.ok
               /\ last.out.val = KnownPath(last.fx.path, last.fx.usb_bus, last.fx.usb_device)
          ELSE ~last.out.ok
    /\ last.op = "info_from_raw" =>
          IF last.fx.path.io_mode \in KnownModes
          THEN last.out.path = KnownPath(last.fx.path, last.fx.usb_bus, last.fx.usb_device)
          ELSE last.out.path =
                  [variant |-> "Usb", bus_number |-> last.fx.usb_bus,
                   device_number |-> last.fx.usb_device, hiddev_device_number |-> -1]

C7_Witness ==
    /\ last.op = "info_from_raw"
    /\ last.fx.path.io_mode \notin KnownModes
    /\ last.fx.usb_bus = 1 /\ last.fx.usb_device = 5
    /\ last.out.path.hiddev_device_number = -1

\* the operations that make foreign calls
ForeignOps ==
    {"enumerate", "open", "capabilities_string", "capabilities", "vcp_set_value",
     "vcp_get_value", "vcp_get_table", "drop_display", "drop_list"}

\* every foreign call of the last operation that failed is the error it returned
Surfaced ==
    \A i \in 1..Len(last.out.calls) :
        last.out.calls[i].status # 0 =>
            ~last.out.res.ok /\ last.out.res.status = last.out.calls[i].status

\* no foreign call is made twice by one operation
NoRetry ==
    \A i, j \in 1..Len(last.out.calls) :
        last.out.calls[i].fn = last.out.calls[j].fn => i = j

\* C8 as stated: every failing foreign call, close included, is surfaced.
C8_AllSurfaced ==
    last.op \in ForeignOps => Surfaced /\ NoRetry

\* C8 amended: every failing foreign call other than ddca_close_display is
\* surfaced as the error of the operation that made it, and no operation
\* repeats a call; Drop for Display returns nothing, whatever close returned.
C8_SurfacedExceptClose ==
    /\ last.op \in ForeignOps \ {"drop_display"} => Surfaced /\ NoRetry
    /\ last.op = "drop_display" => last.out.res.ok /\ NoRetry

\* capabilities() got its string and failed in the parser
C8_Witness ==
    /\ last.op = "capabilities"
    /\ last.fx.status = 0
    /\ last.pfx.status # 0
    /\ ~last.out.res.ok
    /\ last.out.res.status = last.pfx.status

\* C9: from_raw copies the four bytes; value() = sh*256 + sl and
\* maximum() = mh*256 + ml, both within 0..65535.
C9_Value ==
    last.op = "value" =>
        /\ last.out.v = last.fx
        /\ last.out.value = last.fx.sh * 256 + last.fx.sl
        /\ last.out.maximum = last.fx.mh * 256 + last.fx.ml
        /\ last.out.value \in 0..65535
        /\ last.out.maximum \in 0..65535

C9_Witness ==
    /\ last.op = "value"
    /\ last.fx.sh = 255 /\ last.fx.sl = 255 /\ last.fx.mh = 128 /\ last.fx.ml = 1
    /\ last.out.value = 65535
    /\ last.out.maximum = 32769

\* the string read: what precedes the first NUL of the foreign buffer
IsCStrOf(str, mem) ==
    /\ Len(str) < Len(mem)
    /\ \A i \in 1..Len(str) : str[i] = mem[i] /\ str[i] # 0
    /\ mem[Len(str) + 1] = 0

\* the string half of capabilities_string / capabilities
StringPart(res) ==
    IF last.fx.status = 0
    THEN /\ res.ok
         /\ IsCStrOf(res.val, last.fx.buf.data)
         /\ CountCalls(last.out.calls, "free") = 1
         /\ Before(last.out.calls, "CStr::to_owned", "free")
         /\ CountCalls(last.out.calls, "CStr::to_owned") = 1
         /\ last.out.buf.frees = 1
    ELSE /\ ~res.ok
         /\ res.status = last.fx.status
         /\ last.out.res = res
         /\ CountCalls(last.out.calls, "free") = 0
         /\ last.out.buf.frees = 0

\* C10: the capability string is copied, then its buffer freed once, whether
\* or not the parse succeeds; a failed retrieval frees nothing and never
\* reaches the parser; capabilities() is Ok exactly when both calls
\* succeeded; the session is open and unclosed afterwards.
C10_Capabilities ==
    /\ last.op = "capabilities_string" => StringPart(last.out.res)
    /\ last.op = "capabilities" =>
          /\ StringPart(last.out.str)
          /\ last.fx.status # 0 =>
                CountCalls(last.out.calls, "ddca_parse_capabilities_string") = 0
          /\ last.out.res.ok <=> (last.fx.status = 0 /\ last.pfx.status = 0)
    /\ last.op \in {"capabilities_string", "capabilities"} =>
          /\ CountCalls(last.out.calls, "ddca_close_display") = 0
          /\ displays[last.d].st = "open"
          /\ fsess[displays[last.d].handle].st = "open"
          /\ fsess[displays[last.d].handle].closes = 0

\* the string was read and freed, and the parse then failed
C10_Witness ==
    /\ last.op = "capabilities"
    /\ last.fx.status = 0
    /\ last.pfx.status # 0
    /\ ~last.out.res.ok
    /\ last.out.buf.frees = 1
    /\ Len(last.out.str.val) = 2

====
